---- MODULE Spec2Model ----
(***************************************************************************)
(* sparkletop/media-scripts.                                               *)
(*                                                                         *)
(* Two independent command-line programs are modelled:                     *)
(*   - autorename.py       (the Inactivity Renamer), specification Spec    *)
(*   - check_duplicates.py (the Duplicate Filename Scanner), ScanSpec      *)
(*                                                                         *)
(* Strings are modelled as sequences of one-character strings (or of       *)
(* tokens where the code never looks inside them), so that formatting,     *)
(* path joining, extension stripping and substring tests are computed.     *)
(***************************************************************************)
EXTENDS Integers, Sequences, FiniteSets, TLC

VARIABLES
    \* ---- autorename.py -------------------------------------------------
    args,          \* parsed command line (main, line 91)
    uid,           \* run identifier (main, line 93)
    sequence_num,  \* main's sequence counter (lines 94, 104)
    w,             \* the current Watcher object (fields of lines 20-26, 43)
    observer,      \* state of w.observer: "none" | "running" | "stopping" | "stopped"
    pc,            \* position of the foreground (main) thread
    wake,          \* time at which the current time.sleep() may return
    exit_status,   \* how the process ended (Running while it has not)
    now,           \* the wall clock read by time.time()
    dirs,          \* the directories that exist in the filesystem
    queue,         \* events the observer has seen and not yet dispatched
    watch,         \* what the observer's watch is attached to: "off" | "live" | "gone"
    opc,           \* position of the observer thread inside a callback
    hist,          \* history of the current session (not read by the program)
    \* ---- check_duplicates.py -------------------------------------------
    s_in,          \* the arguments of search() and the directory tree
    s_pc,          \* position inside search()
    s_d,           \* the directory os.walk yields next (1 is the root)
    s_f,           \* the list f of collected file records
    s_x, s_y,      \* the loop indices of lines 37-38 (0-based, as in the code)
    s_out,         \* the lines printed so far
    s_ret,         \* the value returned by search(), -1 before it returns
    s_cmp          \* the index pairs filename_similarity was called for (history)

rvars == <<args, uid, sequence_num, w, observer, pc, wake, exit_status, now,
           dirs, queue, watch, opc, hist>>
svars == <<s_in, s_pc, s_d, s_f, s_x, s_y, s_out, s_ret, s_cmp>>
vars  == <<rvars, svars>>

(***************************************************************************)
(* Bounds of the model.                                                    *)
(***************************************************************************)
MaxTime     == 4   \* the clock stops here
MaxSessions == 1   \* sessions the driver loop may create after the first

(***************************************************************************)
(* Command lines explored (argparse, lines 85-89).                         *)
(***************************************************************************)
Uids         == {"1f0c9a2e", "7be44d10"}
Folder       == <<"drop">>
Cwd          == <<"/", "home">>

\* -i, -g, -s, -z and the folder: the grace period below, at and above the
\* poll interval; a sequence that stays within and one that outgrows its width
CommandLine(i, g, s, z) ==
    [interval |-> i, grace_period |-> g, sequence_offset |-> s,
     leading_zeros |-> z, folder |-> Folder]

ArgSets ==
    {CommandLine(1, 0, 9, 1), CommandLine(2, 1, 0, 2), CommandLine(1, 1, 9, 2),
     CommandLine(1, 2, 0, 1), CommandLine(2, 2, 0, 2)}

(***************************************************************************)
(* Pure helpers of autorename.py.                                          *)
(***************************************************************************)
RECURSIVE Digits(_)
Digits(n) ==
    LET DigitChar(d) == <<"0", "1", "2", "3", "4", "5", "6", "7", "8", "9">>[d + 1]
    IN  IF n < 10 THEN <<DigitChar(n)>> ELSE Digits(n \div 10) \o <<DigitChar(n % 10)>>

RECURSIVE ZeroPad(_, _)
ZeroPad(ds, width) == IF Len(ds) >= width THEN ds ELSE ZeroPad(<<"0">> \o ds, width)

\* f"{sequence_num:0{leading_zeros}d}": sign-aware zero padding to a minimum width
FormatSequence(n, zeros) ==
    IF n < 0 THEN <<"-">> \o ZeroPad(Digits(-n), zeros - 1)
    ELSE ZeroPad(Digits(n), zeros)

\* f"{uid}_{sequence_num:0{leading_zeros}d}"
MakeId(u, n, zeros) == <<u, "_">> \o FormatSequence(n, zeros)

\* os.path.abspath: a relative path is joined to the working directory
Abspath(p) == IF Len(p) > 0 /\ p[1] = "/" THEN p ELSE Cwd \o p

\* f"{self.root_dir}_{self.id}"
NewName(self) == self.root_dir \o <<"_">> \o self.id

(***************************************************************************)
(* Watcher: constructor and methods (lines 11-51).                         *)
(***************************************************************************)
\* Watcher.timestamp (lines 42-43), t being the value time.time() returns
Timestamp(self, t) == [self EXCEPT !.last_change_time = t]

\* Watcher.__init__ (lines 20-26)
NewWatcher(folder, interval, grace_period, id, t) ==
    Timestamp([root_dir |-> Abspath(folder), id |-> id, interval |-> interval,
               grace_period |-> grace_period, last_change_time |-> 0,
               watching |-> TRUE], t)

\* faulty variant: the elapsed time is compared with the poll interval
GraceExpiredVsInterval(self, t) == t - self.last_change_time > self.interval

\* the condition of check_directory (line 47)
GraceExpired(self, t) == t - self.last_change_time > self.grace_period

\* the folder main hands to every Watcher (line 100)
SessionFolder == args.folder

\* faulty variant: the id is built from the offset, not from the counter
SessionIdFromOffset == MakeId(uid, args.sequence_offset, args.leading_zeros)

\* the id main hands to a Watcher (line 101)
SessionId == MakeId(uid, sequence_num, args.leading_zeros)

\* faulty variant: the counter skips a number
NextSequenceSkipping(n) == n + 2

\* sequence_num += 1 (line 104)
NextSequence(n) == n + 1

\* the status of exit() in the await loop's handler (line 61)
ExitAwaiting == 0

\* faulty variant: the watch loop's handler exits like the await loop's
ExitWatchingAsAwaiting == ExitAwaiting

\* the status of exit() in the watch loop's handler (line 78)
ExitWatching == 1

\* the observer thread is between callbacks
Idle == <<>>

Running       == [kind |-> "running", code |-> 0, exc |-> "none"]
Exited(c)     == [kind |-> "exit", code |-> c, exc |-> "SystemExit"]
\* an exception nobody catches: traceback and status 1; the interpreter ends an
\* uncaught KeyboardInterrupt by SIGINT, which a shell reports as 130
Uncaught(exc) ==
    [kind |-> "traceback", code |-> IF exc = "KeyboardInterrupt" THEN 130 ELSE 1,
     exc |-> exc]

(***************************************************************************)
(* History of the current session, kept for the properties only.           *)
(***************************************************************************)
NewHistory(h, seq, root) ==
    [session      |-> h.session + 1,   \* sessions created so far
     seq          |-> seq,             \* the number formatted into w.id
     prev_seq     |-> h.seq,           \* ... of the session before
     prev_end     |-> h.end,           \* how the session before ended
     prev_root    |-> h.root,          \* the root_dir of the session before
     root         |-> root,            \* the root_dir of this session
     end          |-> "none",          \* "rename" | "root_deleted" once it ended
     interrupted  |-> "none",          \* where SIGINT arrived, if it did
     detected     |-> -1,              \* time line 57 found the root
     obs_start    |-> -1,              \* time of the timestamp of line 68
     checked_at   |-> -1,              \* time of the latest check_directory
     delivered    |-> FALSE,           \* some callback ran in this session
     last_event   |-> -1,              \* time of the latest callback
     all_within   |-> TRUE,            \* every callback within G of the one before
     root_deleted |-> FALSE,           \* on_deleted ran for the root itself
     renames      |-> 0,               \* os.rename calls that succeeded
     attempts     |-> 0,               \* os.rename calls made
     renamed      |-> h.renamed]       \* every rename of the run: <<from, to>>

FirstHistory ==
    [session |-> 0, seq |-> 0, end |-> "none", root |-> <<>>, renamed |-> <<>>]

Root == Abspath(args.folder)

(***************************************************************************)
(* Initial state: main has parsed its arguments (line 91), drawn the run   *)
(* identifier (line 93), set the counter (line 94) and built the first     *)
(* Watcher (lines 97-102); the target directory may or may not exist.      *)
(***************************************************************************)
ScanIdle ==
    /\ s_in = [used |-> FALSE]
    /\ s_pc = "off"
    /\ s_d = 0
    /\ s_f = <<>>
    /\ s_x = 0
    /\ s_y = 0
    /\ s_out = <<>>
    /\ s_ret = -1
    /\ s_cmp = <<>>

Init ==
    /\ args \in ArgSets
    /\ uid \in Uids
    /\ sequence_num = args.sequence_offset
    /\ now = 0
    /\ w = NewWatcher(args.folder, args.interval, args.grace_period,
                      MakeId(uid, args.sequence_offset, args.leading_zeros), 0)
    /\ observer = "none"
    /\ pc = "await"
    /\ wake = 0
    /\ exit_status = Running
    /\ dirs \in {{}, {Abspath(args.folder)}}
    /\ queue = <<>>
    /\ watch = "off"
    /\ opc = Idle
    /\ hist = NewHistory(FirstHistory, args.sequence_offset, w.root_dir)
    /\ ScanIdle

\* groups of variables an action leaves alone
static == <<svars, args, uid>>
world  == <<dirs, queue, watch>>
thread == <<pc, wake, exit_status>>

(***************************************************************************)
(* The clock and the world outside the process. Neither is followed once   *)
(* the process is on its way out (an exit() handler runs, or it is gone).  *)
(***************************************************************************)
Alive == pc \notin {"except_stop", "except_join", "exited"}

Tick ==
    /\ Alive
    /\ now < MaxTime
    /\ now' = now + 1
    /\ UNCHANGED <<static, world, thread, sequence_num, w, observer, opc, hist>>

\* somebody creates the target directory
EnvMkdir ==
    /\ Alive
    /\ Root \notin dirs
    /\ dirs' = dirs \cup {Root}
    /\ UNCHANGED <<static, thread, queue, watch, sequence_num, w, observer, now,
                   opc, hist>>

\* somebody removes the target directory; an observer that watches it queues
\* the deletion event of the root, and sees nothing of that path afterwards
EnvRmdir ==
    /\ Alive
    /\ Root \in dirs
    /\ dirs' = dirs \ {Root}
    /\ IF observer = "running" /\ watch = "live"
       THEN /\ queue' = Append(queue, [kind |-> "deleted", src_path |-> Root])
            /\ watch' = "gone"
       ELSE UNCHANGED <<queue, watch>>
    /\ UNCHANGED <<static, thread, sequence_num, w, observer, now, opc, hist>>

(***************************************************************************)
(* The observer thread: one callback at a time (lines 28-40). A change     *)
(* below the watched root has no effect on the program but its callback,   *)
(* so the change and the dispatch of its event are one step; the deletion  *)
(* of the root changes the filesystem first and is dispatched later.       *)
(***************************************************************************)
Delivered(h, kind, src_path) ==
    LET ref == IF h.delivered THEN h.last_event
               ELSE IF h.obs_start >= 0 THEN h.obs_start ELSE now
    IN  [h EXCEPT !.delivered = TRUE,
                  !.last_event = now,
                  !.all_within = h.all_within /\ (now - ref <= w.grace_period),
                  !.root_deleted = h.root_deleted
                       \/ (kind = "deleted" /\ src_path = w.root_dir)]

Below(root) == root \o <<"/", "take1">>

Dispatching == observer = "running" /\ opc = Idle /\ Alive

\* on_created (lines 28-30)
OnCreated ==
    /\ Dispatching /\ watch = "live"
    /\ w' = Timestamp(w, now)
    /\ hist' = Delivered(hist, "created", Below(Root))
    /\ UNCHANGED <<static, world, thread, sequence_num, observer, now, opc>>

\* faulty variant: on_modified forgets the timestamp
OnModifiedNoTimestamp ==
    /\ Dispatching /\ watch = "live"
    /\ hist' = Delivered(hist, "modified", Below(Root))
    /\ UNCHANGED <<static, world, thread, sequence_num, w, observer, now, opc>>

\* on_modified (lines 32-33)
OnModified ==
    /\ Dispatching /\ watch = "live"
    /\ w' = Timestamp(w, now)
    /\ hist' = Delivered(hist, "modified", Below(Root))
    /\ UNCHANGED <<static, world, thread, sequence_num, observer, now, opc>>

\* on_deleted, lines 36-37, for a path below the root or for the queued
\* deletion of the root
OnDeleted ==
    /\ Dispatching
    /\ \E src_path \in (IF watch = "live" THEN {Below(Root)} ELSE {})
                          \cup {queue[i].src_path : i \in 1..Len(queue)} :
          /\ w' = Timestamp(w, now)
          /\ opc' = src_path
          /\ queue' = IF src_path = Root THEN <<>> ELSE queue
          /\ hist' = Delivered(hist, "deleted", src_path)
    /\ UNCHANGED <<static, thread, dirs, watch, sequence_num, observer, now>>

\* on_deleted, lines 38-40: the root itself is gone
RootDisappeared(self, src_path) ==
    IF src_path = self.root_dir THEN [self EXCEPT !.watching = FALSE] ELSE self

OnDeletedRoot ==
    /\ opc # Idle
    /\ w' = RootDisappeared(w, opc)
    /\ opc' = Idle
    /\ UNCHANGED <<static, world, thread, sequence_num, observer, now, hist>>

(***************************************************************************)
(* The foreground thread: Watcher.awaken (lines 53-81) and the driver      *)
(* loop of main (lines 96-104).                                            *)
(***************************************************************************)
\* lines 57-58: test for the directory, sleep when it is not there
Await ==
    /\ pc = "await"
    /\ IF w.root_dir \in dirs
       THEN /\ pc' = "start" /\ wake' = wake
            /\ hist' = [hist EXCEPT !.detected = now]
       ELSE /\ pc' = "await_sleep" /\ wake' = now + w.interval
            /\ hist' = hist
    /\ UNCHANGED <<static, world, exit_status, sequence_num, w, observer, now,
                   opc>>

\* line 58: time.sleep returns
AwaitWake ==
    /\ pc = "await_sleep"
    /\ now >= wake
    /\ pc' = "await"
    /\ UNCHANGED <<static, world, wake, exit_status, sequence_num, w, observer,
                   now, opc, hist>>

\* lines 65-67: create, schedule and start the observer. On a directory that
\* has gone since line 57 the observer raises (the comment of line 55), or,
\* depending on the platform's observer, starts and watches nothing.
StartObserver ==
    /\ pc = "start"
    /\ IF w.root_dir \in dirs
       THEN /\ observer' = "running"
            /\ watch' = "live"
            /\ pc' = "timestamp"
            /\ exit_status' = exit_status
       ELSE \/ /\ UNCHANGED <<observer, watch>>
               /\ pc' = "exited"
               /\ exit_status' = Uncaught("FileNotFoundError")
            \/ /\ observer' = "running"
               /\ watch' = "gone"
               /\ pc' = "timestamp"
               /\ exit_status' = exit_status
    /\ UNCHANGED <<static, dirs, queue, wake, sequence_num, w, now, opc, hist>>

\* faulty variant: line 68 is missing, the clock runs since the constructor
StartClockSkipped ==
    /\ pc = "timestamp"
    /\ hist' = [hist EXCEPT !.obs_start = now]
    /\ pc' = "loop"
    /\ UNCHANGED <<static, world, wake, exit_status, sequence_num, w, observer,
                   now, opc>>

\* line 68: self.timestamp()
StartClock ==
    /\ pc = "timestamp"
    /\ w' = Timestamp(w, now)
    /\ hist' = [hist EXCEPT !.obs_start = now]
    /\ pc' = "loop"
    /\ UNCHANGED <<static, world, wake, exit_status, sequence_num, observer, now,
                   opc>>

\* lines 71-72: test the flag, sleep while it is set
Loop ==
    /\ pc = "loop"
    /\ IF w.watching
       THEN pc' = "sleep" /\ wake' = now + w.interval
       ELSE pc' = "stop" /\ wake' = wake
    /\ UNCHANGED <<static, world, exit_status, sequence_num, w, observer, now,
                   opc, hist>>

\* line 72: time.sleep returns, check_directory is called
SleepWake ==
    /\ pc = "sleep"
    /\ now >= wake
    /\ pc' = "check"
    /\ UNCHANGED <<static, world, wake, exit_status, sequence_num, w, observer,
                   now, opc, hist>>

\* check_directory, line 47
CheckDirectory ==
    /\ pc = "check"
    /\ IF GraceExpired(w, now) THEN pc' = "rename" ELSE pc' = "loop"
    /\ hist' = [hist EXCEPT !.checked_at = now]
    /\ UNCHANGED <<static, world, wake, exit_status, sequence_num, w, observer,
                   now, opc>>

\* check_directory, lines 48-49: os.rename raises when the source is gone;
\* the watched directory is no longer at the path the observer was given
Rename ==
    /\ pc = "rename"
    /\ IF w.root_dir \in dirs
       THEN /\ dirs' = (dirs \ {w.root_dir}) \cup {NewName(w)}
            /\ watch' = "gone"
            /\ hist' = [hist EXCEPT !.renames = @ + 1, !.attempts = @ + 1,
                          !.renamed = Append(@, <<w.root_dir, NewName(w)>>)]
            /\ pc' = "deactivate"
            /\ exit_status' = exit_status
       ELSE /\ UNCHANGED <<dirs, watch>>
            /\ hist' = [hist EXCEPT !.attempts = @ + 1]
            /\ pc' = "exited"
            /\ exit_status' = Uncaught("FileNotFoundError")
    /\ UNCHANGED <<static, queue, wake, sequence_num, w, observer, now, opc>>

\* faulty variant: check_directory leaves the flag set
DeactivateForgotten ==
    /\ pc = "deactivate"
    /\ pc' = "loop"
    /\ UNCHANGED <<static, world, wake, exit_status, sequence_num, w, observer,
                   now, opc, hist>>

\* check_directory, lines 50-51
Deactivate ==
    /\ pc = "deactivate"
    /\ w' = [w EXCEPT !.watching = FALSE]
    /\ pc' = "loop"
    /\ UNCHANGED <<static, world, wake, exit_status, sequence_num, observer, now,
                   opc, hist>>

\* line 80: observer.stop(); what it has not dispatched is dropped
StopObserver ==
    /\ pc = "stop"
    /\ observer' = "stopping"
    /\ queue' = <<>>
    /\ watch' = "off"
    /\ pc' = "join"
    /\ UNCHANGED <<static, dirs, wake, exit_status, sequence_num, w, now, opc, hist>>

\* line 81: observer.join() returns once the running callback is done; awaken
\* returns to main
JoinObserver ==
    /\ pc = "join"
    /\ opc = Idle
    /\ observer' = "stopped"
    /\ hist' = [hist EXCEPT !.end = IF hist.renames > 0 THEN "rename"
                                    ELSE "root_deleted"]
    /\ pc' = "increment"
    /\ UNCHANGED <<static, world, wake, exit_status, sequence_num, w, now, opc>>

\* main, line 104
Increment ==
    /\ pc = "increment"
    /\ sequence_num' = NextSequence(sequence_num)
    /\ pc' = "construct"
    /\ UNCHANGED <<static, world, wake, exit_status, w, observer, now, opc, hist>>

\* main, lines 97-102: the next Watcher
Construct ==
    /\ pc = "construct"
    /\ hist.session <= MaxSessions
    /\ w' = NewWatcher(SessionFolder, args.interval, args.grace_period,
                       SessionId, now)
    /\ observer' = "none"
    /\ hist' = NewHistory(hist, sequence_num, w'.root_dir)
    /\ pc' = "await"
    /\ UNCHANGED <<static, world, wake, exit_status, sequence_num, now, opc>>

(***************************************************************************)
(* SIGINT: KeyboardInterrupt is raised in the foreground thread at the     *)
(* statement it is executing. Lines 56-61 catch it in the await loop,      *)
(* lines 70-78 in the watch loop; nothing catches it anywhere else.        *)
(***************************************************************************)
InAwaitLoop == pc \in {"await", "await_sleep"}
InWatchLoop == pc \in {"loop", "sleep", "check", "rename", "deactivate"}

Interrupted(h, where) == [h EXCEPT !.interrupted = where]

\* lines 59-61
InterruptAwaiting ==
    /\ InAwaitLoop
    /\ pc' = "exited"
    /\ exit_status' = Exited(ExitAwaiting)
    /\ hist' = Interrupted(hist, "awaiting")
    /\ UNCHANGED <<static, world, wake, sequence_num, w, observer, now, opc>>

\* line 74: control passes to the handler of the watch loop
InterruptWatching ==
    /\ InWatchLoop
    /\ pc' = "except_stop"
    /\ hist' = Interrupted(hist, "watching")
    /\ UNCHANGED <<static, world, wake, exit_status, sequence_num, w, observer,
                   now, opc>>

\* line 75
ExceptStop ==
    /\ pc = "except_stop"
    /\ observer' = "stopping"
    /\ queue' = <<>>
    /\ watch' = "off"
    /\ pc' = "except_join"
    /\ UNCHANGED <<static, dirs, wake, exit_status, sequence_num, w, now, opc, hist>>

\* lines 76-78
ExceptJoinExit ==
    /\ pc = "except_join"
    /\ opc = Idle
    /\ observer' = "stopped"
    /\ pc' = "exited"
    /\ exit_status' = Exited(ExitWatching)
    /\ UNCHANGED <<static, world, wake, sequence_num, w, now, opc, hist>>

\* anywhere else in main or awaken
InterruptUncaught ==
    /\ pc \in {"start", "timestamp", "stop", "join", "increment", "construct"}
    /\ pc' = "exited"
    /\ exit_status' = Uncaught("KeyboardInterrupt")
    /\ hist' = Interrupted(hist, "elsewhere")
    /\ UNCHANGED <<static, world, wake, sequence_num, w, observer, now, opc>>

Next ==
    \/ Tick
    \/ EnvMkdir \/ EnvRmdir
    \/ OnCreated \/ OnModified \/ OnDeleted \/ OnDeletedRoot
    \/ Await \/ AwaitWake \/ StartObserver \/ StartClock \/ Loop \/ SleepWake
    \/ CheckDirectory \/ Rename \/ Deactivate \/ StopObserver \/ JoinObserver
    \/ Increment \/ Construct
    \/ InterruptAwaiting \/ InterruptWatching \/ ExceptStop \/ ExceptJoinExit
    \/ InterruptUncaught

Spec == Init /\ [][Next]_vars

(***************************************************************************)
(* Properties of the Renamer (checked under Spec).                         *)
(***************************************************************************)
Zeros == args.leading_zeros
Grace == args.grace_period

\* <root>_<runId>_<zero-padded sequence> for sequence number n
ExpectedName(n) == Abspath(args.folder) \o <<"_", uid, "_">> \o FormatSequence(n, Zeros)

\* the foreground thread is past the poll tick's check_directory and goes on
\* with the session
StillWatching == pc \in {"loop", "sleep"} /\ w.watching

\* C1: in a session in which no callback ran, a poll tick whose check comes
\* more than G after the start of observation is never passed without the
\* rename (not skipped); the rename is attempted once, succeeds when the root
\* is there, goes to <root>_<runId>_<sequence>, and the session does not poll
\* again afterwards (not repeated, session ends).
C1_IdleRenamedOnce ==
    ~hist.delivered =>
        /\ hist.attempts <= 1
        /\ (StillWatching /\ hist.checked_at >= 0
               => hist.checked_at - hist.obs_start <= Grace)
        /\ (hist.attempts = 1 /\ hist.renames = 0 => w.root_dir \notin dirs)
        /\ (hist.renames = 1
               => /\ hist.renamed[Len(hist.renamed)]
                       = <<Abspath(args.folder), ExpectedName(hist.seq)>>
                  /\ ExpectedName(hist.seq) \in dirs
                  /\ hist.checked_at - hist.obs_start > Grace
                  /\ ~StillWatching
                  /\ pc \notin {"check", "rename"})

C1_Witness ==
    /\ ~hist.delivered /\ hist.renames = 1 /\ pc = "increment"
    /\ hist.end = "rename"
    /\ Grace >= args.interval

\* C2: in a session whose callbacks (none for the deletion of the root) all
\* came within G of the one before (the first within G of the start of
\* observation), os.rename is only called more than G after the latest
\* callback: no rename while the events keep arriving.
C2_NoRenameWhileActive ==
    [][(hist'.attempts > hist.attempts
           /\ hist.delivered /\ hist.all_within /\ ~hist.root_deleted)
          => now - hist.last_event > Grace]_vars

\* a poll tick later than G after the start of observation was passed without
\* a rename because events kept arriving
C2_Witness ==
    /\ hist.delivered /\ hist.all_within /\ ~hist.root_deleted
    /\ StillWatching /\ hist.renames = 0
    /\ hist.checked_at - hist.obs_start > Grace

\* C3 (as claimed): in a session in which on_deleted has run for the root
\* itself (the callback has returned), os.rename is neither performed nor
\* attempted.
C3_Claim == hist.root_deleted /\ opc = Idle => hist.attempts = 0

\* C4: every session after the first targets the root_dir of the session
\* before it and carries that session's sequence number plus one, whether the
\* session before ended by its rename or by the disappearance of the root.
C4_NextSession ==
    hist.session >= 2 =>
        /\ hist.prev_end \in {"rename", "root_deleted"}
        /\ w.root_dir = hist.prev_root
        /\ hist.seq = hist.prev_seq + 1
        /\ w.id = MakeId(uid, hist.prev_seq + 1, Zeros)

C4_Witness ==
    /\ hist.session = 2 /\ hist.prev_end = "root_deleted" /\ pc = "await_sleep"

\* C5: SIGINT in the await loop ends the process with status 0, no observer
\* having been started; SIGINT in the watch loop ends it with status 1, the
\* observer stopped and joined.
C5_InterruptStatus ==
    pc = "exited" =>
        /\ (hist.interrupted = "awaiting"
               => exit_status = Exited(0) /\ observer = "none")
        /\ (hist.interrupted = "watching"
               => exit_status = Exited(1) /\ observer = "stopped")

C5_Witness ==
    /\ pc = "exited" /\ hist.interrupted = "watching"
    /\ exit_status.kind = "exit" /\ exit_status.code = 1 /\ observer = "stopped"
    /\ hist.renames = 0

\* C6 (as claimed): the process ends only through a user interrupt.
C6_Claim == pc = "exited" => hist.interrupted # "none"

\* C7: every session's id is the run identifier, "_", and the session's
\* zero-padded sequence number; the first number is the offset and the numbers
\* increase, so the renames of one run have pairwise different targets that
\* agree up to their sequence part.
RenameTargets == {hist.renamed[i][2] : i \in 1..Len(hist.renamed)}
StampLen == Len(Abspath(args.folder)) + 3

C7_RunIdAndSequence ==
    /\ w.id = <<uid, "_">> \o FormatSequence(hist.seq, Zeros)
    /\ (hist.session = 1 => hist.seq = args.sequence_offset)
    /\ (hist.session >= 2 => hist.seq > hist.prev_seq)
    /\ Cardinality(RenameTargets) = Len(hist.renamed)
    /\ \A t \in RenameTargets :
          SubSeq(t, 1, StampLen) = Abspath(args.folder) \o <<"_", uid, "_">>

C7_Witness == Len(hist.renamed) >= 2 /\ args.sequence_offset = 9

\* C8: a session renames at most once; the step that renames leaves nothing
\* under the old name; once check_directory has returned from a rename the
\* session is inactive; and the session that follows targets the original
\* base path, not the renamed one.
C8_OneRenamePerSession ==
    /\ [](/\ hist.renames <= 1
          /\ (hist.renames = 1 /\ pc \in {"loop", "sleep", "check", "rename",
                                          "stop", "join", "increment", "construct"}
                 => ~w.watching /\ pc \notin {"sleep", "check", "rename"})
          /\ (hist.session >= 2 /\ hist.prev_end = "rename"
                 => /\ w.root_dir = Abspath(args.folder)
                    /\ w.root_dir \notin RenameTargets))
    /\ [][hist'.renames > hist.renames
             => /\ w.root_dir \notin dirs'
                /\ NewName(w) \in dirs'
                /\ hist.renames = 0]_vars

C8_Witness ==
    /\ hist.session = 2 /\ hist.prev_end = "rename" /\ pc = "start"
    /\ Len(hist.renamed) = 1

\* C13 (as claimed): in a session in which a callback has run, the
\* last-activity timestamp is the time of the latest callback.
C13_Claim == hist.delivered => w.last_change_time = hist.last_event

\* C14 (as claimed): os.rename never renames the root when a callback ran
\* less than G before it, nor when the session is marked inactive.
C14_Claim ==
    [][hist'.renames > hist.renames =>
          /\ w.watching
          /\ (hist.delivered => now - hist.last_event >= Grace)]_vars

\* C15 (as claimed): no observer is running while main is between two
\* sessions or a session is awaiting its root, and the observer has been
\* stopped when the process is left by an interrupt of the watch loop, or,
\* with no interrupt, after on_deleted has run for the root and returned.
C15_Claim ==
    /\ (pc \in {"increment", "construct", "await", "await_sleep"}
           => observer \in {"none", "stopped"})
    /\ (pc = "exited" /\ hist.interrupted = "watching" => observer = "stopped")
    /\ (pc = "exited" /\ hist.interrupted = "none"
              /\ hist.root_deleted /\ opc = Idle
           => observer = "stopped")

\* C19: the timestamp a session's checks compare with is never older than
\* the detection of its root by line 57, and os.rename is only called more
\* than G after that detection, however long the session had been waiting.
C19_ClockStartsAtObservation ==
    /\ [](hist.obs_start >= 0 =>
             /\ hist.detected >= 0
             /\ hist.obs_start >= hist.detected
             /\ w.last_change_time >= hist.obs_start)
    /\ [][hist'.attempts > hist.attempts => now - hist.detected > Grace]_vars

\* the first session waited for its root longer than G, and renamed it
C19_Witness ==
    /\ hist.session = 1 /\ hist.renames = 1
    /\ Grace >= 1 /\ hist.detected > Grace

(***************************************************************************)
(* check_duplicates.py                                                     *)
(***************************************************************************)
MaxFiles    == 3   \* files in the top level of the scanned folder
MaxSubFiles == 1   \* files in its subfolder

\* what filetype.guess returns: a kind with a MIME type and an extension, or
\* None for content it does not recognise
Kind(mime, extension) == [known |-> TRUE, mime |-> mime, extension |-> extension]
None == [known |-> FALSE, mime |-> <<>>, extension |-> <<>>]

\* the files a folder may hold: name, and what their content is sniffed as
SongMp3 ==
    [filename |-> <<"s", "o", "n", "g", ".", "m", "p", "3">>,
     kind |-> Kind(<<"a", "u", "d", "i", "o", "/", "m", "p", "e", "g">>,
                   <<"m", "p", "3">>)]
SongWav ==
    [filename |-> <<"s", "o", "n", "g", ".", "w", "a", "v">>,
     kind |-> Kind(<<"a", "u", "d", "i", "o", "/", "x", "-", "w", "a", "v">>,
                   <<"w", "a", "v">>)]
SungMp3 ==
    [filename |-> <<"s", "u", "n", "g", ".", "m", "p", "3">>,
     kind |-> Kind(<<"a", "u", "d", "i", "o", "/", "m", "p", "e", "g">>,
                   <<"m", "p", "3">>)]
SingMp3 ==
    [filename |-> <<"s", "i", "n", "g", ".", "m", "p", "3">>,
     kind |-> Kind(<<"a", "u", "d", "i", "o", "/", "m", "p", "e", "g">>,
                   <<"m", "p", "3">>)]
PhotoJpg ==
    [filename |-> <<"p", "h", "o", "t", "o", ".", "j", "p", "g">>,
     kind |-> Kind(<<"i", "m", "a", "g", "e", "/", "j", "p", "e", "g">>,
                   <<"j", "p", "g">>)]
NotesTxt ==
    [filename |-> <<"n", "o", "t", "e", "s", ".", "t", "x", "t">>,
     kind |-> None]

Files == {SongMp3, SongWav, SungMp3, SingMp3, PhotoJpg, NotesTxt}

\* the listings of one folder: up to n files, no name twice
RECURSIVE Listings(_)
Listings(n) ==
    IF n = 0 THEN {<<>>}
    ELSE Listings(n - 1) \cup
         {Append(l, f) : l \in {m \in Listings(n - 1) : Len(m) = n - 1},
                         f \in Files}
Distinct(l) == \A i, j \in 1..Len(l) : i # j => l[i].filename # l[j].filename

RootDir == <<"media">>
SubDir  == <<"media", "/", "old">>

MimeSubstrings == {<<"a", "u", "d", "i", "o">>, <<"i", "m", "a", "g", "e", "/">>}
Thresholds     == {<<1, 2>>, <<4, 5>>}   \* -s 0.5 and the default 0.8, as fractions

\* os.path.join(root, filename)
PathJoin(root, filename) == root \o <<"/">> \o filename

\* mime_substring in kind.mime (line 26)
Contains(sub, str) ==
    \E k \in 0..(Len(str) - Len(sub)) :
        \A i \in 1..Len(sub) : str[k + i] = sub[i]

\* os.path.splitext(p)[0]: cut at the last dot, unless only dots precede it
SplitextRoot(p) ==
    LET dots == {i \in 1..Len(p) : p[i] = "."}
        last == CHOOSE i \in dots : \A j \in dots : j <= i
    IN  IF dots # {} /\ (\E k \in 1..(last - 1) : p[k] # ".")
        THEN SubSeq(p, 1, last - 1)
        ELSE p

\* difflib.SequenceMatcher.find_longest_match on a[alo:ahi], b[blo:bhi]
\* (0-based, half-open, as in Python): the longest common block, the earliest
\* in a and then the earliest in b among the longest
RECURSIVE RunLength(_, _, _, _, _, _)
RunLength(a, b, i, j, ahi, bhi) ==
    IF i < ahi /\ j < bhi /\ a[i + 1] = b[j + 1]
    THEN 1 + RunLength(a, b, i + 1, j + 1, ahi, bhi)
    ELSE 0

FindLongestMatch(a, b, alo, ahi, blo, bhi) ==
    LET blocks == {<<i, j>> : i \in alo..(ahi - 1), j \in blo..(bhi - 1)}
        size(m) == RunLength(a, b, m[1], m[2], ahi, bhi)
        better(m, n) == \/ size(m) > size(n)
                        \/ size(m) = size(n) /\ m[1] < n[1]
                        \/ size(m) = size(n) /\ m[1] = n[1] /\ m[2] <= n[2]
    IN  IF blocks = {} THEN [i |-> alo, j |-> blo, size |-> 0]
        ELSE LET best == CHOOSE m \in blocks : \A n \in blocks : better(m, n)
             IN  [i |-> best[1], j |-> best[2], size |-> size(best)]

\* the sum of the sizes get_matching_blocks returns: the longest block, then
\* the same to its left and to its right
RECURSIVE MatchingChars(_, _, _, _, _, _)
MatchingChars(a, b, alo, ahi, blo, bhi) ==
    LET m == FindLongestMatch(a, b, alo, ahi, blo, bhi)
    IN  IF m.size = 0 THEN 0
        ELSE m.size
             + MatchingChars(a, b, alo, m.i, blo, m.j)
             + MatchingChars(a, b, m.i + m.size, ahi, m.j + m.size, bhi)

\* SequenceMatcher.ratio(): 2.0*M/T, and 1.0 for two empty strings, as the
\* fraction <<numerator, denominator>>
Ratio(a, b) ==
    IF Len(a) + Len(b) = 0 THEN <<1, 1>>
    ELSE <<2 * MatchingChars(a, b, 0, Len(a), 0, Len(b)), Len(a) + Len(b)>>

\* filename_similarity (lines 47-50)
FilenameSimilarity(file1, file2) == Ratio(SplitextRoot(file1), SplitextRoot(file2))

\* similarity >= similarity_threshold (line 41), on fractions
AtLeast(r, t) == r[1] * t[2] >= t[1] * r[2]

(***************************************************************************)
(* search (lines 10-44)                                                    *)
(***************************************************************************)
\* faulty variant: every file of a recognised type is collected
RECURSIVE CollectAnyKnown(_, _, _)
CollectAnyKnown(root, files, mime_substring) ==
    IF files = <<>> THEN <<>>
    ELSE LET filename == Head(files).filename
             kind == Head(files).kind
             rest == CollectAnyKnown(root, Tail(files), mime_substring)
         IN  IF kind.known
             THEN <<[filename |-> filename, path |-> PathJoin(root, filename),
                     extension |-> kind.extension]>> \o rest
             ELSE rest

\* lines 22-27: the records appended for the files of one directory
RECURSIVE Collect(_, _, _)
Collect(root, files, mime_substring) ==
    IF files = <<>> THEN <<>>
    ELSE LET filename == Head(files).filename
             kind == Head(files).kind
             rest == Collect(root, Tail(files), mime_substring)
         IN  IF kind.known /\ Contains(mime_substring, kind.mime)
             THEN <<[filename |-> filename, path |-> PathJoin(root, filename),
                     extension |-> kind.extension]>> \o rest
             ELSE rest

\* range(0, total-2) and range(x+1, total-1) (lines 37-38): the stop values
XStop(total) == total - 2

\* faulty variant: the inner range runs over every later file
YStopInclusive(total) == total

YStop(total) == total - 1

\* the condition of line 39
ShouldCompare(no_similar_extensions, fx, fy) ==
    ~no_similar_extensions /\ fx.extension = fy.extension

\* the status search returns once it got past the checks (lines 35, 44)
StatusDone == 0

\* faulty variant: a rejected root is reported like a completed scan
StatusInvalidAsDone == StatusDone

\* the status search returns for a root it rejects (lines 13, 16)
StatusInvalid == 1

ScanInputs ==
    {[root |-> "missing", tree |-> <<>>], [root |-> "file", tree |-> <<>>]}
    \cup {[root |-> "dir",
           tree |-> <<[path |-> RootDir, files |-> top],
                      [path |-> SubDir, files |-> sub]>>] :
            top \in {l \in Listings(MaxFiles) : Distinct(l)},
            sub \in {l \in Listings(MaxSubFiles) : Distinct(l)}}

RenamerIdle ==
    /\ args = CommandLine(1, 0, 0, 2)
    /\ uid = "1f0c9a2e"
    /\ sequence_num = 0
    /\ now = 0
    /\ w = NewWatcher(Folder, 1, 0, MakeId("1f0c9a2e", 0, 2), 0)
    /\ observer = "none"
    /\ pc = "off"
    /\ wake = 0
    /\ exit_status = Running
    /\ dirs = {}
    /\ queue = <<>>
    /\ watch = "off"
    /\ opc = Idle
    /\ hist = NewHistory(FirstHistory, 0, w.root_dir)

\* search() is called with its arguments (line 62)
ScanInit ==
    /\ \E in \in ScanInputs, t \in Thresholds, m \in MimeSubstrings,
          r \in BOOLEAN, e \in BOOLEAN :
          s_in = [root |-> in.root, tree |-> in.tree, similarity_threshold |-> t,
                  mime_substring |-> m, recurse |-> r, no_similar_extensions |-> e]
    /\ s_pc = "validate"
    /\ s_d = 1
    /\ s_f = <<>>
    /\ s_x = 0
    /\ s_y = 0
    /\ s_out = <<>>
    /\ s_ret = -1
    /\ s_cmp = <<>>
    /\ RenamerIdle

\* lines 11-16
Validate ==
    /\ s_pc = "validate"
    /\ IF s_in.root = "missing"
       THEN /\ s_out' = Append(s_out, [line |-> "does not exist"])
            /\ s_ret' = StatusInvalid
            /\ s_pc' = "done"
       ELSE IF s_in.root # "dir"
       THEN /\ s_out' = Append(s_out, [line |-> "is not a folder"])
            /\ s_ret' = StatusInvalid
            /\ s_pc' = "done"
       ELSE /\ s_pc' = "walk"
            /\ UNCHANGED <<s_out, s_ret>>
    /\ UNCHANGED <<rvars, s_in, s_d, s_f, s_x, s_y, s_cmp>>

\* lines 21-29: one directory of the walk, top-down from the root
Walk ==
    /\ s_pc = "walk"
    /\ s_d <= Len(s_in.tree)
    /\ s_f' = s_f \o Collect(s_in.tree[s_d].path, s_in.tree[s_d].files,
                             s_in.mime_substring)
    /\ IF ~s_in.recurse \/ s_d = Len(s_in.tree)
       THEN s_pc' = "count" /\ s_d' = s_d
       ELSE s_pc' = "walk" /\ s_d' = s_d + 1
    /\ UNCHANGED <<rvars, s_in, s_x, s_y, s_out, s_ret, s_cmp>>

\* faulty variant: the count line is printed only when something was found
CountQuietWhenEmpty ==
    /\ s_pc = "count"
    /\ IF Len(s_f) = 0
       THEN s_ret' = StatusDone /\ s_pc' = "done" /\ s_x' = s_x /\ s_out' = s_out
       ELSE /\ s_ret' = s_ret /\ s_pc' = "for_x" /\ s_x' = 0
            /\ s_out' = Append(s_out, [line |-> "Found", total |-> Len(s_f),
                                       type |-> s_in.mime_substring])
    /\ UNCHANGED <<rvars, s_in, s_d, s_f, s_y, s_cmp>>

\* lines 31-35
Count ==
    /\ s_pc = "count"
    /\ s_out' = Append(s_out, [line |-> "Found", total |-> Len(s_f),
                               type |-> s_in.mime_substring])
    /\ IF Len(s_f) = 0
       THEN s_ret' = StatusDone /\ s_pc' = "done" /\ s_x' = s_x
       ELSE s_ret' = s_ret /\ s_pc' = "for_x" /\ s_x' = 0
    /\ UNCHANGED <<rvars, s_in, s_d, s_f, s_y, s_cmp>>

\* faulty variant: the inner range starts at x itself
ForXFromSame ==
    /\ s_pc = "for_x"
    /\ IF s_x < XStop(Len(s_f))
       THEN s_y' = s_x /\ s_pc' = "for_y" /\ s_ret' = s_ret
       ELSE s_y' = s_y /\ s_pc' = "done" /\ s_ret' = StatusDone
    /\ UNCHANGED <<rvars, s_in, s_d, s_f, s_x, s_out, s_cmp>>

\* line 37: the next x, or line 44 when the range is used up
ForX ==
    /\ s_pc = "for_x"
    /\ IF s_x < XStop(Len(s_f))
       THEN s_y' = s_x + 1 /\ s_pc' = "for_y" /\ s_ret' = s_ret
       ELSE s_y' = s_y /\ s_pc' = "done" /\ s_ret' = StatusDone
    /\ UNCHANGED <<rvars, s_in, s_d, s_f, s_x, s_out, s_cmp>>

\* line 38: the next y, or back to line 37
ForY ==
    /\ s_pc = "for_y"
    /\ IF s_y < YStop(Len(s_f))
       THEN s_pc' = "body" /\ s_x' = s_x
       ELSE s_pc' = "for_x" /\ s_x' = s_x + 1
    /\ UNCHANGED <<rvars, s_in, s_d, s_f, s_y, s_out, s_ret, s_cmp>>

\* lines 39-42
Body ==
    /\ s_pc = "body"
    /\ LET fx == s_f[s_x + 1]
           fy == s_f[s_y + 1]
           similarity == FilenameSimilarity(fx.filename, fy.filename)
       IN  IF ShouldCompare(s_in.no_similar_extensions, fx, fy)
           THEN /\ s_cmp' = Append(s_cmp, <<s_x, s_y>>)
                /\ s_out' = IF AtLeast(similarity, s_in.similarity_threshold)
                            THEN Append(s_out, [line |-> "pair", left |-> fx.path,
                                                right |-> fy.path,
                                                similarity |-> similarity])
                            ELSE s_out
           ELSE UNCHANGED <<s_cmp, s_out>>
    /\ s_y' = s_y + 1
    /\ s_pc' = "for_y"
    /\ UNCHANGED <<rvars, s_in, s_d, s_f, s_x, s_ret>>

ScanNext == Validate \/ Walk \/ Count \/ ForX \/ ForY \/ Body

ScanSpec == ScanInit /\ [][ScanNext]_vars

(***************************************************************************)
(* Properties of the Scanner (checked under ScanSpec).                     *)
(***************************************************************************)
Scanned == s_pc = "done" /\ s_ret = 0

\* a pair line was printed for the x-th and y-th collected file (1-based)
Printed(x, y) ==
    \E i \in 1..Len(s_out) :
        /\ s_out[i].line = "pair"
        /\ s_out[i].left = s_f[x].path
        /\ s_out[i].right = s_f[y].path

Similar(x, y) ==
    AtLeast(FilenameSimilarity(s_f[x].filename, s_f[y].filename),
            s_in.similarity_threshold)

CollectedPairs == {p \in (1..Len(s_f)) \X (1..Len(s_f)) : p[1] < p[2]}

\* C9 (as claimed): without -e, a pair of collected files is printed exactly
\* when the similarity of its names is at or above the threshold.
C9_Claim ==
    Scanned /\ ~s_in.no_similar_extensions =>
        \A p \in CollectedPairs : Printed(p[1], p[2]) <=> Similar(p[1], p[2])

\* C10 (as claimed): with -e, pairs of the same detected extension are neither
\* compared nor printed, and pairs of different extensions are printed exactly
\* when their similarity is at or above the threshold.
C10_Claim ==
    Scanned /\ s_in.no_similar_extensions =>
        \A p \in CollectedPairs :
            IF s_f[p[1]].extension = s_f[p[2]].extension
            THEN ~Printed(p[1], p[2])
            ELSE Printed(p[1], p[2]) <=> Similar(p[1], p[2])

\* C11: search returns 1 exactly when the root does not exist or is not a
\* directory, and then it has printed its one message, collected nothing and
\* compared nothing; for a directory it returns 0, whether it found no file
\* or went through the pair loop.
C11_StatusOneIffInvalid ==
    /\ (s_in.root # "dir" => s_f = <<>> /\ s_cmp = <<>>)
    /\ (s_pc = "done" =>
           /\ s_ret \in {0, 1}
           /\ (s_ret = 1 <=> s_in.root \in {"missing", "file"})
           /\ (s_ret = 1 =>
                  /\ Len(s_out) = 1
                  /\ s_out[1].line \in {"does not exist", "is not a folder"})
           /\ (s_in.root = "dir" => s_ret = 0))

C11_Witness == s_pc = "done" /\ s_in.root = "file" /\ s_ret = 1

\* the directories os.walk gets to, and the files the type substring selects
Visited == IF s_in.recurse THEN 1..Len(s_in.tree) ELSE {1}
Matches(file) ==
    file.kind.known /\ Contains(s_in.mime_substring, file.kind.mime)
NoMatch ==
    /\ s_in.root = "dir"
    /\ \A d \in Visited :
          \A i \in 1..Len(s_in.tree[d].files) : ~Matches(s_in.tree[d].files[i])

\* C12: when no file the walk gets to matches the type substring, search
\* prints the count line with count 0 and nothing else, and returns 0.
C12_ZeroMatches ==
    s_pc = "done" /\ NoMatch =>
        /\ s_out = <<[line |-> "Found", total |-> 0, type |-> s_in.mime_substring]>>
        /\ s_ret = 0

C12_Witness ==
    /\ s_pc = "done" /\ NoMatch /\ s_ret = 0
    /\ Len(s_in.tree[1].files) = 3
    /\ \E i \in 1..3 : s_in.tree[1].files[i].kind.known

\* the index pairs (0-based) the claimed bounds admit for a list of that size
InBounds(x, y, total) == 0 <= x /\ x < total - 2 /\ x < y /\ y < total - 1

PairLines == {i \in 1..Len(s_out) : s_out[i].line = "pair"}

\* C16: the body of the pair loop only runs for index pairs (x, y) with
\* 0 <= x < total-2 and x < y < total-1; the last collected file is on neither
\* side of any printed pair; with fewer than three collected files no pair
\* is printed.
C16_PairLoopBounds ==
    /\ (s_pc = "body" => InBounds(s_x, s_y, Len(s_f)))
    /\ \A i \in 1..Len(s_cmp) : InBounds(s_cmp[i][1], s_cmp[i][2], Len(s_f))
    /\ \A i \in PairLines :
          /\ Len(s_f) >= 3
          /\ s_out[i].left # s_f[Len(s_f)].path
          /\ s_out[i].right # s_f[Len(s_f)].path

\* a pair was printed, and the last file, as similar to the first and of its
\* extension, was left out
C16_Witness ==
    /\ Scanned /\ Len(s_f) = 4 /\ Printed(1, 2)
    /\ Similar(1, 4) /\ s_f[1].extension = s_f[4].extension

\* C17: filename_similarity is called at most once for any two collected
\* files, in whichever order, always with the earlier-collected file first
\* and never with the same file twice.
C17_ComparedOnce ==
    \A i \in 1..Len(s_cmp) :
        /\ s_cmp[i][1] < s_cmp[i][2]
        /\ \A j \in 1..Len(s_cmp) :
              i # j => /\ s_cmp[j] # s_cmp[i]
                       /\ s_cmp[j] # <<s_cmp[i][2], s_cmp[i][1]>>

C17_Witness == Scanned /\ Len(s_cmp) = 3

\* the records of the matching files of the directories the walk gets to
ExpectedFiles ==
    UNION {{[filename |-> s_in.tree[d].files[i].filename,
             path |-> PathJoin(s_in.tree[d].path, s_in.tree[d].files[i].filename),
             extension |-> s_in.tree[d].files[i].kind.extension] :
               i \in {k \in 1..Len(s_in.tree[d].files) :
                        Matches(s_in.tree[d].files[k])}} :
           d \in Visited}

\* C18: once the walk is over, f holds exactly the files whose sniffed MIME
\* type contains the type substring (none of unrecognised type), each once,
\* from every directory when recurse is set and from the root's top level
\* only when it is not; the count line carries the length of f.
C18_CollectedExactly ==
    s_in.root = "dir" /\ s_pc \in {"count", "for_x", "for_y", "body", "done"} =>
        /\ {s_f[i] : i \in 1..Len(s_f)} = ExpectedFiles
        /\ Len(s_f) = Cardinality(ExpectedFiles)
        /\ (s_pc # "count" =>
               s_out[1] = [line |-> "Found", total |-> Cardinality(ExpectedFiles),
                           type |-> s_in.mime_substring])

\* without recurse: a matching file of the subfolder is left out, and so are
\* an unrecognised file and one of another type at the top level
C18_Witness ==
    /\ s_pc = "done" /\ s_in.root = "dir" /\ ~s_in.recurse
    /\ Len(s_f) = 1 /\ Len(s_in.tree[1].files) = 3
    /\ \E i \in 1..3 : s_in.tree[1].files[i] = NotesTxt
    /\ Len(s_in.tree[2].files) = 1 /\ Matches(s_in.tree[2].files[1])

====
